---------------------------- MODULE Spec2Model ----------------------------
(***************************************************************************)
(* Model of src/app.py, the Streamlit dashboard "Dashboard Stunting        *)
(* Sidoarjo": loading of the screening records and of the boundary         *)
(* catalog, aggregate_by_kecamatan, the sidebar filter, the merge loop of  *)
(* create_choropleth_map and the order in which main() renders.            *)
(*                                                                         *)
(* Representation.                                                         *)
(*  - A region name is a sequence of one-character strings, so that        *)
(*    str.strip / str.upper can be computed on it.  A missing cell of the  *)
(*    CSV (pandas NaN) is the value NaN, which is equal to nothing under   *)
(*    the element-wise == of pandas, itself included.                      *)
(*  - A percentage is an integer number of hundredths of a percent:        *)
(*    20.0 is 2000, 20.01 is 2001, 33.33 is 3333.                          *)
(*  - A DataFrame of records is [columns, rows]; a statistics DataFrame is *)
(*    the sequence of its rows (the empty sequence is pd.DataFrame([]),    *)
(*    which has no columns).                                               *)
(*  - A Python dict (feature, properties) is a function on its key set.    *)
(***************************************************************************)
EXTENDS Integers, Sequences, FiniteSets, TLC

VARIABLES
    csv_file,            \* what pd.read_csv finds in data/...csv
    geojson_file,        \* what json.load finds in data/...geojson
    df,                  \* main: df
    geojson,             \* main: geojson (the loaded catalog object)
    stats_df,            \* main: stats_df
    selected_kecamatan,  \* main: selected_kecamatan
    selected_puskesmas,  \* main: selected_puskesmas
    filtered_df,         \* main: filtered_df
    display_stats,       \* main: display_stats
    map_fig,             \* main: map_fig
    stats,               \* aggregate_by_kecamatan: the row dict being built
    outputs,             \* what the run has rendered so far, in order
    reports,             \* st.error / st.warning messages emitted so far
    pc                   \* position of the run inside main()

vars == <<csv_file, geojson_file, df, geojson, stats_df, selected_kecamatan,
          selected_puskesmas, filtered_df, display_stats, map_fig, stats,
          outputs, reports, pc>>

-----------------------------------------------------------------------------
(* Bounds of the model.                                                    *)

\* Longest record set given to aggregate_by_kecamatan on its own.
MaxRecords == 3
\* Longest record set of a whole run of main() and of the filter.
MaxRunRecords == 2
\* Most features in a boundary catalog.
MaxFeatures == 2
\* Largest percentage, in hundredths, given to the classifier on its own.
MaxPct == 10000

-----------------------------------------------------------------------------
(* Values.                                                                 *)

None == [None |-> TRUE]          \* Python None
Unbound == [unbound |-> TRUE]    \* a local not assigned yet
Unreadable == [unreadable |-> TRUE]  \* a file whose read raises

NaN == <<"NaN">>                 \* pandas missing value

KEC_A == <<"K", "E", "C", " ", "A">>
kec_a_sp == <<"k", "e", "c", " ", "a", " ">>
KEC_B == <<"K", "E", "C", " ", "B">>
KEC_C == <<"K", "E", "C", " ", "C">>
Semua == <<"S", "e", "m", "u", "a">>

SeqUpTo(S, n) == UNION {[1..k -> S] : k \in 0..n}

RECURSIVE SumSeq(_)
SumSeq(s) == IF s = <<>> THEN 0 ELSE Head(s) + SumSeq(Tail(s))

Range(s) == {s[i] : i \in DOMAIN s}

-----------------------------------------------------------------------------
(* NameNormalizer of the specification: str.strip then str.upper.  The     *)
(* source has no such function; it compares raw names.                     *)

Upper(c) ==
    CASE c = "a" -> "A" [] c = "b" -> "B" [] c = "c" -> "C"
      [] c = "e" -> "E" [] c = "k" -> "K" [] c = "m" -> "M"
      [] c = "u" -> "U" [] OTHER -> c

RECURSIVE LStrip(_)
LStrip(s) == IF s # <<>> /\ Head(s) = " " THEN LStrip(Tail(s)) ELSE s

RECURSIVE RStrip(_)
RStrip(s) ==
    IF s # <<>> /\ s[Len(s)] = " " THEN RStrip(SubSeq(s, 1, Len(s) - 1)) ELSE s

Strip(s) == RStrip(LStrip(s))

normalize(raw) == [i \in 1..Len(Strip(raw)) |-> Upper(Strip(raw)[i])]

-----------------------------------------------------------------------------
(* Screening records and the DataFrame that holds them.                    *)

RequiredColumns ==
    {"nama_kecamatan", "nama_puskesmas", "jenis_kelamin_balita",
     "stunting_balita", "status_tbu", "status_bbtb", "status_bbu"}

KecamatanValues == {KEC_A, kec_a_sp, KEC_B, NaN}
PUSK_1 == <<"P", "1">>
PUSK_2 == <<"P", "2">>
PuskesmasValues == {PUSK_1, PUSK_2}
StuntingValues == {"Ya", "Tidak"}

\* One CSV row.  The three inputs that the operations under study read vary
\* freely; the remaining four columns are fixed by them.
Rec(k, p, s) ==
    [nama_kecamatan |-> k,
     nama_puskesmas |-> p,
     jenis_kelamin_balita |-> IF p = PUSK_1 THEN "Laki - Laki" ELSE "Perempuan",
     stunting_balita |-> s,
     status_tbu |-> IF s = "Ya" THEN "Pendek" ELSE "Normal",
     status_bbtb |-> IF s = "Ya" THEN "Gizi Kurang" ELSE "Gizi Baik",
     status_bbu |-> IF s = "Ya" THEN "BB Kurang" ELSE "BB Normal"]

RecordPool ==
    {Rec(k, p, s) : k \in KecamatanValues, p \in PuskesmasValues, s \in StuntingValues}

Frame(cols, rows) == [columns |-> cols, rows |-> rows]

Frames(n) == {Frame(RequiredColumns, r) : r \in SeqUpTo(RecordPool, n)}

\* row[[cols]]: a row cut to some of its columns.
Project(row, cols) == [c \in cols |-> row[c]]

\* Record files that lack one required column: without rows, or with one.
MalformedFrames ==
    {Frame(RequiredColumns \ {c}, r) : c \in RequiredColumns, r \in {<<>>}}
    \cup {Frame(RequiredColumns \ {c},
                <<Project(Rec(KEC_A, PUSK_1, "Ya"), RequiredColumns \ {c})>>) :
             c \in RequiredColumns}

\* pandas: series == value, element-wise; NaN == NaN is False.
PdEq(a, b) == a # NaN /\ b # NaN /\ a = b

\* pandas: Series.isin(values); isin matches NaN with NaN.
IsIn(a, values) == a \in values

\* pandas: Series.unique(), in order of first appearance, NaN kept once.
RECURSIVE Unique(_)
Unique(s) ==
    IF s = <<>> THEN <<>>
    ELSE LET init == Unique(SubSeq(s, 1, Len(s) - 1))
             last == s[Len(s)]
         IN IF last \in Range(init) THEN init ELSE Append(init, last)

Column(frame, c) == [i \in DOMAIN frame.rows |-> frame.rows[i][c]]

\* len(kec_data[kec_data[c] == v]), for the columns of status strings (the
\* record pool holds no missing cell in them).
CountEq(rows, c, v) == Len(SelectSeq(rows, LAMBDA r : r[c] = v))

-----------------------------------------------------------------------------
(* aggregate_by_kecamatan.                                                 *)

\* Python round(n / d) on the exact quotient, ties to even.  round(x, 2) of
\* the float x = stunting / total * 100 is this value for every total below
\* 160; from there on (23 / 160 is the first case) an exact tie whose float
\* is inexact may go to the other neighbour.  A tie needs 32 to divide total.
RoundHalfEven(n, d) ==
    LET q == n \div d
        r == n % d
    IN IF 2 * r < d THEN q
       ELSE IF 2 * r > d THEN q + 1
       ELSE IF q % 2 = 0 THEN q ELSE q + 1

\* Faulty variant of Percentage: the quotient cut instead of rounded.
PercentageTruncated(stunting, total) ==
    IF total > 0 THEN (stunting * 10000) \div total ELSE 0

\* round((stunting / total * 100), 2) if total > 0 else 0, in hundredths.
Percentage(stunting, total) ==
    IF total > 0 THEN RoundHalfEven(stunting * 10000, total) ELSE 0

\* Faulty variant of Classify: the upper threshold taken inclusively.
ClassifyInclusive(p) ==
    IF p >= 2000
    THEN [prediksi |-> "Perlu Perhatian", tren |-> "+2.5%", kategori |-> "Tinggi"]
    ELSE IF p > 1000
    THEN [prediksi |-> "Perlu Monitoring", tren |-> "+1.2%", kategori |-> "Sedang"]
    ELSE [prediksi |-> "Stabil", tren |-> "+0.5%", kategori |-> "Rendah"]

\* "Prediksi sederhana": the keys added to the row, from its percentage.
Classify(p) ==
    IF p > 2000
    THEN [prediksi |-> "Perlu Perhatian", tren |-> "+2.5%", kategori |-> "Tinggi"]
    ELSE IF p > 1000
    THEN [prediksi |-> "Perlu Monitoring", tren |-> "+1.2%", kategori |-> "Sedang"]
    ELSE [prediksi |-> "Stabil", tren |-> "+0.5%", kategori |-> "Rendah"]

\* kec_data = df[df['nama_kecamatan'] == kecamatan]
KecData(frame, kecamatan) ==
    SelectSeq(frame.rows, LAMBDA r : PdEq(r.nama_kecamatan, kecamatan))

\* The dict `stats` as built before the classification is added.
BaseStats(frame, kecamatan) ==
    LET kec_data == KecData(frame, kecamatan)
        total == Len(kec_data)
        stunting == CountEq(kec_data, "stunting_balita", "Ya")
    IN [kecamatan |-> kecamatan,
        total |-> total,
        stunting |-> stunting,
        normal |-> total - stunting,
        persentase_stunting |-> Percentage(stunting, total),
        pendek |-> CountEq(kec_data, "status_tbu", "Pendek"),
        sangat_pendek |-> CountEq(kec_data, "status_tbu", "Sangat Pendek"),
        gizi_kurang |-> CountEq(kec_data, "status_bbtb", "Gizi Kurang"),
        gizi_baik |-> CountEq(kec_data, "status_bbtb", "Gizi Baik"),
        bb_kurang |-> CountEq(kec_data, "status_bbu", "BB Kurang"),
        bb_normal |-> CountEq(kec_data, "status_bbu", "BB Normal"),
        laki_laki |-> CountEq(kec_data, "jenis_kelamin_balita", "Laki - Laki"),
        perempuan |-> CountEq(kec_data, "jenis_kelamin_balita", "Perempuan")]

\* One row of kec_stats.
StatsRow(frame, kecamatan) ==
    LET base == BaseStats(frame, kecamatan)
    IN Classify(base.persentase_stunting) @@ base

\* The columns the function reads; a missing one raises KeyError.  The loop
\* body, and so every column but the first, is read only if there is a row.
AggregateRaises(frame) ==
    \/ "nama_kecamatan" \notin frame.columns
    \/ /\ frame.rows # <<>>
       /\ \E c \in {"stunting_balita", "status_tbu", "status_bbtb",
                     "status_bbu", "jenis_kelamin_balita"} :
              c \notin frame.columns

\* The key of that KeyError: the first missing column in the order of reading.
AggregateMissing(frame) ==
    LET order == <<"nama_kecamatan", "stunting_balita", "status_tbu", "status_bbtb",
                   "status_bbu", "jenis_kelamin_balita">>
        i == CHOOSE k \in DOMAIN order :
                 /\ order[k] \notin frame.columns
                 /\ \A j \in 1..(k - 1) : order[j] \in frame.columns
    IN order[i]

\* pd.DataFrame(kec_stats): one row per value of unique(), in its order.
aggregate_by_kecamatan(frame) ==
    LET keys == Unique(Column(frame, "nama_kecamatan"))
    IN [i \in 1..Len(keys) |-> StatsRow(frame, keys[i])]

-----------------------------------------------------------------------------
(* The sidebar filter of main().                                           *)

\* Faulty variant of FilterData: a record passes if either dimension passes.
FilterDataEither(frame, sel_kec, sel_pusk) ==
    Frame(frame.columns,
          SelectSeq(frame.rows, LAMBDA r :
              \/ Semua \in sel_kec \/ sel_kec = {} \/ IsIn(r.nama_kecamatan, sel_kec)
              \/ Semua \in sel_pusk \/ sel_pusk = {} \/ IsIn(r.nama_puskesmas, sel_pusk)))

\* filtered_df = df.copy(), then one boolean-mask selection per dimension
\* whose selection is non-empty and does not hold 'Semua'.
FilterData(frame, sel_kec, sel_pusk) ==
    LET by_kec ==
            IF Semua \notin sel_kec /\ sel_kec # {}
            THEN SelectSeq(frame.rows, LAMBDA r : IsIn(r.nama_kecamatan, sel_kec))
            ELSE frame.rows
        by_pusk ==
            IF Semua \notin sel_pusk /\ sel_pusk # {}
            THEN SelectSeq(by_kec, LAMBDA r : IsIn(r.nama_puskesmas, sel_pusk))
            ELSE by_kec
    IN Frame(frame.columns, by_pusk)

\* options=['Semua'] + list(stats_df['kecamatan'].unique())
KecamatanOptions(stats_rows) ==
    {Semua} \cup Range([i \in DOMAIN stats_rows |-> stats_rows[i].kecamatan])

\* options=['Semua'] + list(df['nama_puskesmas'].unique())
PuskesmasOptions(frame) == {Semua} \cup Range(Column(frame, "nama_puskesmas"))

-----------------------------------------------------------------------------
(* The boundary catalog and the merge loop of create_choropleth_map.       *)

\* d[k] = v on a dict.
Put(d, k, v) == [x \in DOMAIN d \cup {k} |-> IF x = k THEN v ELSE d[x]]

\* The properties a feature may carry: the name under the key the source
\* reads, or under the alternate key only.
PropertiesPool == {[WADMKC |-> KEC_A], [WADMKC |-> KEC_C], [WADMKEC |-> KEC_A]}

Geometry(i) == <<"polygon", i>>

Feature(props, i) ==
    [type |-> "Feature", geometry |-> Geometry(i), properties |-> props]

FeatureCollection(features) ==
    [type |-> "FeatureCollection", features |-> features]

\* A JSON document that json.load accepts and that holds no feature list.
NoFeatureList == [type |-> "Topology"]

Catalogs ==
    {FeatureCollection([i \in DOMAIN ps |-> Feature(ps[i], i)]) :
        ps \in SeqUpTo(PropertiesPool, MaxFeatures)}

\* The body of the merge loop for one feature that has 'WADMKC'.
MergeFeature(feature, stats_rows) ==
    LET kecamatan_name == feature.properties.WADMKC
        kec_stat == SelectSeq(stats_rows, LAMBDA r : PdEq(r.kecamatan, kecamatan_name))
        p0 == feature.properties
        p1 == Put(p0, "stunting_count",
                  IF kec_stat # <<>> THEN kec_stat[1].stunting ELSE 0)
        p2 == Put(p1, "persentase_stunting",
                  IF kec_stat # <<>> THEN kec_stat[1].persentase_stunting ELSE 0)
        p3 == Put(p2, "total_balita",
                  IF kec_stat # <<>> THEN kec_stat[1].total ELSE 0)
        p4 == Put(p3, "kategori",
                  IF kec_stat # <<>> THEN kec_stat[1].kategori ELSE "Tidak Ada Data")
    IN [feature EXCEPT !.properties = p4]

\* Whether the loop body raises KeyError on this feature: no 'WADMKC' in its
\* properties, or a statistics frame without the column 'kecamatan'.
MergeRaises(feature, stats_rows) ==
    \/ "WADMKC" \notin DOMAIN feature.properties
    \/ stats_rows = <<>>

\* Index of the first feature on which the loop raises; Len + 1 if none.
FirstRaising(features, stats_rows) ==
    LET bad == {i \in DOMAIN features : MergeRaises(features[i], stats_rows)}
    IN IF bad = {} THEN Len(features) + 1
       ELSE CHOOSE i \in bad : \A j \in bad : i <= j

\* Whether create_choropleth_map raises before it returns a figure.
ChoroplethRaises(gj, stats_rows) ==
    \/ "features" \notin DOMAIN gj
    \/ FirstRaising(gj.features, stats_rows) <= Len(gj.features)

\* The key of that KeyError.
ChoroplethMissing(gj, stats_rows) ==
    IF "features" \notin DOMAIN gj THEN "features"
    ELSE IF "WADMKC" \notin
              DOMAIN gj.features[FirstRaising(gj.features, stats_rows)].properties
    THEN "WADMKC"
    ELSE "kecamatan"

\* The geojson object after the merge loop has run, to its end or to the
\* feature on which it raises: the features before that one are rewritten.
MergeLoop(gj, stats_rows) ==
    IF "features" \notin DOMAIN gj THEN gj
    ELSE LET stop == FirstRaising(gj.features, stats_rows)
         IN [gj EXCEPT !.features =
                [i \in DOMAIN gj.features |->
                    IF i < stop THEN MergeFeature(gj.features[i], stats_rows)
                    ELSE gj.features[i]]]

\* fig = px.choropleth_mapbox(stats_df, geojson=geojson, ...): what the
\* figure is built from.
ChoroplethFigure(gj, stats_rows) ==
    [data |-> stats_rows,
     geojson |-> gj,
     locations |-> "kecamatan",
     featureidkey |-> "properties.WADMKC",
     color |-> "persentase_stunting"]

-----------------------------------------------------------------------------
(* Tables drawn by main().                                                 *)

\* sort_values('persentase_stunting', ascending=False): every ordering of
\* the rows that descends by percentage (the order of ties is not fixed).
SortedDescending(rows) ==
    LET n == Len(rows)
        perms == {f \in [1..n -> 1..n] : \A i, j \in 1..n : i # j => f[i] # f[j]}
    IN {[i \in 1..n |-> rows[f[i]]] : f \in
           {g \in perms : \A i, j \in 1..n :
               i < j => rows[g[i]].persentase_stunting >= rows[g[j]].persentase_stunting}}

\* nlargest(10, 'persentase_stunting'): the ten first rows of the descending
\* order in which rows of equal percentage keep their order (keep='first').
NLargest(rows) ==
    LET n == Len(rows)
        rank(i) == Cardinality({j \in 1..n :
                       \/ rows[j].persentase_stunting > rows[i].persentase_stunting
                       \/ /\ rows[j].persentase_stunting = rows[i].persentase_stunting
                          /\ j < i}) + 1
        top == IF n < 10 THEN n ELSE 10
    IN [k \in 1..top |-> rows[CHOOSE i \in 1..n : rank(i) = k]]

DisplayColumns ==
    {"kecamatan", "total", "stunting", "persentase_stunting", "pendek",
     "sangat_pendek", "gizi_kurang", "kategori", "prediksi"}

PredictionColumns == {"kecamatan", "persentase_stunting", "kategori", "prediksi", "tren"}

ProjectAll(rows, cols) == [i \in DOMAIN rows |-> Project(rows[i], cols)]

SumColumn(rows, c) == SumSeq([i \in DOMAIN rows |-> rows[i][c]])

HighRiskColumns == {"kecamatan", "persentase_stunting", "stunting"}

\* Series.value_counts(): the count of every value of the column, as the
\* mapping from the Series' index to its values.
ValueCounts(rows, c) ==
    [v \in {rows[i][c] : i \in DOMAIN rows} |-> CountEq(rows, c, v)]

\* groupby(['jenis_kelamin_balita', 'stunting_balita']).size()
\* .unstack(fill_value=0): one row per gender and one column per stunting
\* value that occur, a combination that does not occur counting 0.
GenderStunting(rows) ==
    [g \in {rows[i].jenis_kelamin_balita : i \in DOMAIN rows} |->
        [s \in {rows[i].stunting_balita : i \in DOMAIN rows} |->
            Cardinality({i \in DOMAIN rows :
                /\ rows[i].jenis_kelamin_balita = g
                /\ rows[i].stunting_balita = s})]]

\* filtered_df[stunting_balita == 'Ya'].groupby('nama_puskesmas').size()
\* .sort_values(ascending=False).head(10): the facilities with a case and
\* their number of cases, in every descending order (the order of ties is
\* not fixed), cut to the ten first.
PuskesmasStunting(rows) ==
    LET cases == SelectSeq(rows, LAMBDA r : r.stunting_balita = "Ya")
        groups == {[nama_puskesmas |-> p, size |-> CountEq(cases, "nama_puskesmas", p)] :
                      p \in {cases[i].nama_puskesmas : i \in DOMAIN cases}}
        n == Cardinality(groups)
        top == IF n < 10 THEN n ELSE 10
    IN {SubSeq(t, 1, top) : t \in
           {f \in [1..n -> groups] :
               /\ \A i, j \in 1..n : i # j => f[i] # f[j]
               /\ \A i, j \in 1..n : i < j => f[i].size >= f[j].size}}

-----------------------------------------------------------------------------
(* The loaders.                                                            *)

\* load_csv_data: the frame read, or None when the read raises.
load_csv_data(file) == IF file = Unreadable THEN None ELSE file

\* load_geojson_data: the document read, or None when the read raises.
load_geojson_data(file) == IF file = Unreadable THEN None ELSE file

Report(kind, text) == [kind |-> kind, text |-> text]

LoadReports(csv, gj) ==
    (IF csv = Unreadable THEN <<Report("error", "Error loading CSV")>> ELSE <<>>)
    \o (IF gj = Unreadable THEN <<Report("error", "Error loading GeoJSON")>> ELSE <<>>)

\* An uncaught KeyError, which ends the run; Streamlit shows it with its key.
KeyError(key) == [kind |-> "exception", text |-> "KeyError", key |-> key]

-----------------------------------------------------------------------------
(* One run of main(), step by step.                                        *)

InitLocals ==
    /\ df = Unbound
    /\ geojson = Unbound
    /\ stats_df = Unbound
    /\ selected_kecamatan = Unbound
    /\ selected_puskesmas = Unbound
    /\ filtered_df = Unbound
    /\ display_stats = Unbound
    /\ map_fig = Unbound
    /\ stats = Unbound
    /\ outputs = <<>>
    /\ reports = <<>>

Init ==
    /\ csv_file \in {Unreadable} \cup Frames(MaxRunRecords) \cup MalformedFrames
    /\ geojson_file \in {Unreadable, NoFeatureList} \cup Catalogs
    /\ InitLocals
    /\ pc = "load"

\* df = load_csv_data(csv_path); geojson = load_geojson_data(geojson_path)
LoadData ==
    /\ pc = "load"
    /\ df' = load_csv_data(csv_file)
    /\ geojson' = load_geojson_data(geojson_file)
    /\ reports' = reports \o LoadReports(csv_file, geojson_file)
    /\ pc' = "check"
    /\ UNCHANGED <<csv_file, geojson_file, stats_df, selected_kecamatan,
                   selected_puskesmas, filtered_df, display_stats, map_fig,
                   stats, outputs>>

\* if df is None or geojson is None: st.error(...); return
CheckLoaded ==
    /\ pc = "check"
    /\ IF df = None \/ geojson = None
       THEN /\ reports' = Append(reports,
                    Report("error", "Pastikan file data tersedia di folder 'data/'"))
            /\ pc' = "stopped"
       ELSE /\ reports' = reports
            /\ pc' = "aggregate"
    /\ UNCHANGED <<csv_file, geojson_file, df, geojson, stats_df,
                   selected_kecamatan, selected_puskesmas, filtered_df,
                   display_stats, map_fig, stats, outputs>>

\* stats_df = aggregate_by_kecamatan(df)
Aggregate ==
    /\ pc = "aggregate"
    /\ IF AggregateRaises(df)
       THEN /\ reports' = Append(reports, KeyError(AggregateMissing(df)))
            /\ pc' = "crashed"
            /\ stats_df' = stats_df
       ELSE /\ stats_df' = aggregate_by_kecamatan(df)
            /\ pc' = "sidebar"
            /\ reports' = reports
    /\ UNCHANGED <<csv_file, geojson_file, df, geojson, selected_kecamatan,
                   selected_puskesmas, filtered_df, display_stats, map_fig,
                   stats, outputs>>

\* Reading the options raises KeyError on a statistics frame without rows
\* (it has no column 'kecamatan') and on records without 'nama_puskesmas'.
SidebarRaises == stats_df = <<>> \/ "nama_puskesmas" \notin df.columns

\* The two st.sidebar.multiselect widgets: any selection among the options.
Sidebar ==
    /\ pc = "sidebar"
    /\ IF SidebarRaises
       THEN /\ IF stats_df = <<>>
               THEN /\ reports' = Append(reports, KeyError("kecamatan"))
                    /\ selected_kecamatan' = selected_kecamatan
               ELSE /\ reports' = Append(reports, KeyError("nama_puskesmas"))
                    /\ selected_kecamatan' \in SUBSET KecamatanOptions(stats_df)
            /\ selected_puskesmas' = selected_puskesmas
            /\ pc' = "crashed"
       ELSE /\ selected_kecamatan' \in SUBSET KecamatanOptions(stats_df)
            /\ selected_puskesmas' \in SUBSET PuskesmasOptions(df)
            /\ pc' = "filter"
            /\ reports' = reports
    /\ UNCHANGED <<csv_file, geojson_file, df, geojson, stats_df, filtered_df,
                   display_stats, map_fig, stats, outputs>>

\* "Filter data" and "Recalculate stats for filtered data".
Filter ==
    /\ pc = "filter"
    /\ filtered_df' = FilterData(df, selected_kecamatan, selected_puskesmas)
    /\ display_stats' =
           IF filtered_df'.rows # <<>>
           THEN aggregate_by_kecamatan(filtered_df')
           ELSE stats_df
    /\ pc' = "metrics"
    /\ UNCHANGED <<csv_file, geojson_file, df, geojson, stats_df,
                   selected_kecamatan, selected_puskesmas, map_fig, stats,
                   outputs, reports>>

\* "Key Metrics": the four st.metric cards.
Metrics ==
    /\ pc = "metrics"
    /\ LET total_balita == SumColumn(display_stats, "total")
           total_stunting == SumColumn(display_stats, "stunting")
       IN outputs' = Append(outputs,
              [kind |-> "metrics",
               total_balita |-> total_balita,
               total_stunting |-> total_stunting,
               persentase_stunting |-> Percentage(total_stunting, total_balita),
               total_pendek |-> SumColumn(display_stats, "pendek"),
               puskesmas |-> Cardinality(Range(Column(df, "nama_puskesmas")))])
    /\ pc' = "tab1"
    /\ UNCHANGED <<csv_file, geojson_file, df, geojson, stats_df,
                   selected_kecamatan, selected_puskesmas, filtered_df,
                   display_stats, map_fig, stats, reports>>

\* tab1: map_fig = create_choropleth_map(geojson, stats_df); the merge loop
\* writes into the features of the geojson object it is given.
Tab1Map ==
    /\ pc = "tab1"
    /\ geojson' = MergeLoop(geojson, stats_df)
    /\ IF ChoroplethRaises(geojson, stats_df)
       THEN /\ reports' = Append(reports, KeyError(ChoroplethMissing(geojson, stats_df)))
            /\ pc' = "crashed"
            /\ UNCHANGED <<map_fig, outputs>>
       ELSE /\ map_fig' = ChoroplethFigure(geojson', stats_df)
            /\ outputs' = Append(outputs, [kind |-> "plotly_chart", fig |-> "fig_map", data |-> map_fig'])
            /\ pc' = "tab2"
            /\ reports' = reports
    /\ UNCHANGED <<csv_file, geojson_file, df, stats_df, selected_kecamatan,
                   selected_puskesmas, filtered_df, display_stats, stats>>

\* tab2: the bar chart of the ten highest percentages and the statistics
\* table, both of display_stats.
Tab2Table ==
    /\ pc = "tab2"
    /\ \E t \in SortedDescending(ProjectAll(display_stats, DisplayColumns)) :
           outputs' = outputs \o
               <<[kind |-> "plotly_chart", fig |-> "fig_bar",
                  data |-> NLargest(display_stats)],
                 [kind |-> "dataframe", fig |-> "display_table", data |-> t]>>
    /\ pc' = "tab3"
    /\ UNCHANGED <<csv_file, geojson_file, df, geojson, stats_df,
                   selected_kecamatan, selected_puskesmas, filtered_df,
                   display_stats, map_fig, stats, reports>>

HighRisk(rows) == SelectSeq(rows, LAMBDA r : r.kategori = "Tinggi")

\* tab3: the pie of the prediksi counts, the bar chart of the kategori
\* counts, the prediction table and, if a row of display_stats is 'Tinggi',
\* the warning and the table of the high-risk rows.
Tab3Prediction ==
    /\ pc = "tab3"
    /\ LET high_risk == HighRisk(display_stats)
       IN /\ \E t \in SortedDescending(ProjectAll(display_stats, PredictionColumns)) :
                 outputs' = outputs \o
                     <<[kind |-> "plotly_chart", fig |-> "fig_pie",
                        data |-> ValueCounts(display_stats, "prediksi")],
                       [kind |-> "plotly_chart", fig |-> "fig_kategori",
                        data |-> ValueCounts(display_stats, "kategori")],
                       [kind |-> "dataframe", fig |-> "prediction_table", data |-> t]>> \o
                     (IF high_risk # <<>>
                      THEN <<[kind |-> "dataframe", fig |-> "high_risk",
                              data |-> ProjectAll(high_risk, HighRiskColumns)]>>
                      ELSE <<>>)
          /\ reports' =
                 IF high_risk # <<>>
                 THEN Append(reports, Report("warning", "kategori risiko TINGGI"))
                 ELSE reports
    /\ pc' = "tab4"
    /\ UNCHANGED <<csv_file, geojson_file, df, geojson, stats_df,
                   selected_kecamatan, selected_puskesmas, filtered_df,
                   display_stats, map_fig, stats>>

\* The three counts of tbu_data.
TbuData(rows) ==
    [Normal |-> CountEq(rows, "status_tbu", "Normal"),
     Pendek |-> CountEq(rows, "status_tbu", "Pendek"),
     SangatPendek |-> CountEq(rows, "status_tbu", "Sangat Pendek")]

\* tab4: the five detail charts, counted from filtered_df; then the footer.
Tab4Detail ==
    /\ pc = "tab4"
    /\ \E top \in PuskesmasStunting(filtered_df.rows) :
           outputs' = outputs \o
               <<[kind |-> "plotly_chart", fig |-> "fig_tbu",
                  data |-> TbuData(filtered_df.rows)],
                 [kind |-> "plotly_chart", fig |-> "fig_gender",
                  data |-> GenderStunting(filtered_df.rows)],
                 [kind |-> "plotly_chart", fig |-> "fig_bbtb",
                  data |-> ValueCounts(filtered_df.rows, "status_bbtb")],
                 [kind |-> "plotly_chart", fig |-> "fig_bbu",
                  data |-> ValueCounts(filtered_df.rows, "status_bbu")],
                 [kind |-> "plotly_chart", fig |-> "fig_puskesmas", data |-> top]>>
    /\ pc' = "done"
    /\ UNCHANGED <<csv_file, geojson_file, df, geojson, stats_df,
                   selected_kecamatan, selected_puskesmas, filtered_df,
                   display_stats, map_fig, stats, reports>>

Next ==
    \/ LoadData
    \/ CheckLoaded
    \/ Aggregate
    \/ Sidebar
    \/ Filter
    \/ Metrics
    \/ Tab1Map
    \/ Tab2Table
    \/ Tab3Prediction
    \/ Tab4Detail

Spec == Init /\ [][Next]_vars

-----------------------------------------------------------------------------
(* aggregate_by_kecamatan on its own: every record set of up to MaxRecords *)
(* records, at the call of line 202.                                       *)

InitAggregate ==
    /\ csv_file \in Frames(MaxRecords)
    /\ geojson_file = FeatureCollection(<<>>)
    /\ df = load_csv_data(csv_file)
    /\ geojson = load_geojson_data(geojson_file)
    /\ stats_df = Unbound
    /\ selected_kecamatan = Unbound
    /\ selected_puskesmas = Unbound
    /\ filtered_df = Unbound
    /\ display_stats = Unbound
    /\ map_fig = Unbound
    /\ stats = Unbound
    /\ outputs = <<>>
    /\ reports = <<>>
    /\ pc = "aggregate"

NextAggregate == Aggregate

SpecAggregate == InitAggregate /\ [][NextAggregate]_vars

-----------------------------------------------------------------------------
(* The sidebar and the filter on their own: every record set of up to      *)
(* MaxRunRecords records, from the point where stats_df has been computed. *)

InitFilter ==
    /\ csv_file \in Frames(MaxRunRecords)
    /\ geojson_file = FeatureCollection(<<>>)
    /\ df = load_csv_data(csv_file)
    /\ geojson = load_geojson_data(geojson_file)
    /\ stats_df = aggregate_by_kecamatan(df)
    /\ selected_kecamatan = Unbound
    /\ selected_puskesmas = Unbound
    /\ filtered_df = Unbound
    /\ display_stats = Unbound
    /\ map_fig = Unbound
    /\ stats = Unbound
    /\ outputs = <<>>
    /\ reports = <<>>
    /\ pc = "sidebar"

NextFilter == Sidebar \/ Filter

SpecFilter == InitFilter /\ [][NextFilter]_vars

-----------------------------------------------------------------------------
(* The classification step of aggregate_by_kecamatan on its own: the row   *)
(* dict, cut to the key the step reads, for every percentage.              *)

InitClassify ==
    /\ stats \in {[persentase_stunting |-> p] : p \in 0..MaxPct}
    /\ csv_file = Frame(RequiredColumns, <<>>)
    /\ geojson_file = FeatureCollection(<<>>)
    /\ df = load_csv_data(csv_file)
    /\ geojson = load_geojson_data(geojson_file)
    /\ stats_df = Unbound
    /\ selected_kecamatan = Unbound
    /\ selected_puskesmas = Unbound
    /\ filtered_df = Unbound
    /\ display_stats = Unbound
    /\ map_fig = Unbound
    /\ outputs = <<>>
    /\ reports = <<>>
    /\ pc = "classify"

\* "Prediksi sederhana": the if / elif / else that completes the row.
ClassifyStats ==
    /\ pc = "classify"
    /\ stats' = Classify(stats.persentase_stunting) @@ stats
    /\ pc' = "classified"
    /\ UNCHANGED <<csv_file, geojson_file, df, geojson, stats_df,
                   selected_kecamatan, selected_puskesmas, filtered_df,
                   display_stats, map_fig, outputs, reports>>

NextClassify == ClassifyStats

SpecClassify == InitClassify /\ [][NextClassify]_vars

-----------------------------------------------------------------------------
(* Properties.                                                             *)

Abs(x) == IF x < 0 THEN -x ELSE x

AfterAggregate == {"sidebar", "filter", "metrics", "tab1", "tab2", "tab3", "tab4", "done"}
AfterMap == {"tab2", "tab3", "tab4", "done"}

\* p hundredths is stunting / total * 100 rounded to two decimals: no other
\* multiple of 0.01 is nearer to the exact quotient.
IsRoundedPercentage(p, stunting, total) ==
    2 * Abs(p * total - stunting * 10000) <= total

\* C1: every row produced by aggregate_by_kecamatan has
\* 0 <= stunting <= total, and its percentage is stunting / total * 100
\* rounded to two decimals when total > 0 and is 0 when total = 0.
C1_RowsConsistent ==
    pc = "sidebar" =>
        \A i \in DOMAIN stats_df :
            LET row == stats_df[i]
            IN /\ 0 <= row.stunting
               /\ row.stunting <= row.total
               /\ IF row.total > 0
                  THEN IsRoundedPercentage(row.persentase_stunting, row.stunting, row.total)
                  ELSE row.persentase_stunting = 0

\* A region of three records, two of them stunted, aggregated to 66.67 %.
C1_Witness ==
    /\ pc = "sidebar"
    /\ \E i \in DOMAIN stats_df :
           /\ stats_df[i].total = 3
           /\ stats_df[i].stunting = 2
           /\ stats_df[i].persentase_stunting = 6667

\* C2: a percentage p is classified Tinggi / "Perlu Perhatian" exactly when
\* p > 20.0, Sedang / "Perlu Monitoring" exactly when 10.0 < p <= 20.0 and
\* Rendah / "Stabil" exactly when p <= 10.0; 20.0 is Sedang, 20.01 Tinggi,
\* 10.0 Rendah and 10.01 Sedang; category and label come from the same row
\* of the table.
C2_ClassifierThresholds ==
    pc = "classified" =>
        LET p == stats.persentase_stunting
        IN /\ (stats.kategori = "Tinggi") <=> (p > 2000)
           /\ (stats.kategori = "Sedang") <=> (1000 < p /\ p <= 2000)
           /\ (stats.kategori = "Rendah") <=> (p <= 1000)
           /\ (stats.prediksi = "Perlu Perhatian") <=> (stats.kategori = "Tinggi")
           /\ (stats.prediksi = "Perlu Monitoring") <=> (stats.kategori = "Sedang")
           /\ (stats.prediksi = "Stabil") <=> (stats.kategori = "Rendah")
           /\ p = 2000 => stats.kategori = "Sedang"
           /\ p = 2001 => stats.kategori = "Tinggi"
           /\ p = 1000 => stats.kategori = "Rendah"
           /\ p = 1001 => stats.kategori = "Sedang"

\* The boundary 20.0 has been classified, as Sedang.
C2_Witness ==
    /\ pc = "classified"
    /\ stats.persentase_stunting = 2000
    /\ stats.kategori = "Sedang"
    /\ stats.prediksi = "Perlu Monitoring"

\* The name under which the specification's catalog knows a feature: the
\* first of the candidate property keys that is present, else the empty name.
CatalogName(feature) ==
    LET props == feature.properties
    IN IF "WADMKC" \in DOMAIN props THEN props.WADMKC
       ELSE IF "WADMKEC" \in DOMAIN props THEN props.WADMKEC
       ELSE IF "kecamatan" \in DOMAIN props THEN props.kecamatan
       ELSE <<>>

\* The merge loop has been entered on a catalog: it ran to its end, or it
\* raised on a feature.
JoinRan ==
    /\ geojson_file \in Catalogs
    /\ \/ pc \in AfterMap
       \/ /\ pc = "crashed"
          /\ reports[Len(reports)] = KeyError("WADMKC")

\* The feature carries the statistics of the row named like it, or the
\* zero-filled defaults if there is no such row.
CarriesStats(feature, stats_rows) ==
    LET match == SelectSeq(stats_rows, LAMBDA r : PdEq(r.kecamatan, CatalogName(feature)))
        props == feature.properties
    IN /\ {"total_balita", "stunting_count", "persentase_stunting", "kategori"}
              \subseteq DOMAIN props
       /\ IF match # <<>>
          THEN /\ props.total_balita = match[1].total
               /\ props.stunting_count = match[1].stunting
               /\ props.persentase_stunting = match[1].persentase_stunting
               /\ props.kategori = match[1].kategori
          ELSE /\ props.total_balita = 0
               /\ props.stunting_count = 0
               /\ props.persentase_stunting = 0
               /\ props.kategori = "Tidak Ada Data"

\* C3: for every catalog and every statistics table the join yields exactly
\* one joined feature per catalog key; a feature whose key has a statistics
\* row carries that row's total, stunting count, percentage and category,
\* and a feature whose key has none still appears, zero-filled and with
\* category "Tidak Ada Data".
C3_JoinComplete ==
    JoinRan =>
        /\ Len(geojson.features) = Len(geojson_file.features)
        /\ \A i \in DOMAIN geojson.features : CarriesStats(geojson.features[i], stats_df)
        /\ \A i, j \in DOMAIN geojson.features :
               i # j => CatalogName(geojson.features[i]) # CatalogName(geojson.features[j])

\* The region names that have a statistics row (the row of the records
\* without a name aside).
StatsKeys == Range([i \in DOMAIN stats_df |-> stats_df[i].kecamatan]) \ {NaN}

CatalogKeys == {CatalogName(geojson.features[i]) : i \in DOMAIN geojson.features}

\* The region keys that the run has reported as unmatched: those named by a
\* report and those returned beside the figure.
UnmatchedStatsKeysReported ==
    UNION {IF "keys" \in DOMAIN reports[i] THEN reports[i].keys ELSE {} :
              i \in DOMAIN reports}
    \cup (IF "unmatched_stats_keys" \in DOMAIN map_fig
          THEN map_fig.unmatched_stats_keys ELSE {})

\* C4: after a join, every region key of the statistics without a catalog
\* feature has been reported in unmatched_stats_keys, and no joined feature
\* handed to the figure bears it.
C4_UnmatchedStatsReported ==
    pc \in AfterMap =>
        /\ (StatsKeys \ CatalogKeys) \subseteq UnmatchedStatsKeysReported
        /\ \A i \in DOMAIN map_fig.geojson.features :
               CatalogName(map_fig.geojson.features[i]) \notin (StatsKeys \ CatalogKeys)

\* C5: names are compared through normalize (strip, then upper) on both
\* sides: records whose names normalize alike fall into one statistics row,
\* and a statistics row is joined to every feature whose name normalizes
\* like its own.
C5_NormalizedComparison ==
    /\ pc \in AfterAggregate =>
           \A i, j \in DOMAIN stats_df :
               /\ stats_df[i].kecamatan # NaN
               /\ stats_df[j].kecamatan # NaN
               /\ normalize(stats_df[i].kecamatan) = normalize(stats_df[j].kecamatan)
               => i = j
    /\ pc \in AfterMap =>
           \A i \in DOMAIN stats_df : \A k \in DOMAIN geojson.features :
               /\ stats_df[i].kecamatan # NaN
               /\ normalize(stats_df[i].kecamatan)
                      = normalize(CatalogName(geojson.features[k]))
               => geojson.features[k].properties.total_balita = stats_df[i].total

\* C6: the join leaves the loaded catalog as it was after loading.
C6_CatalogUnchanged ==
    (pc # "load" /\ geojson # None) => geojson = load_geojson_data(geojson_file)

\* A record passes a dimension whose selection is empty or holds 'Semua',
\* and otherwise only if its value is among the selected ones.
PassesDimension(value, selection) ==
    selection = {} \/ Semua \in selection \/ value \in selection

\* C7: the filter returns exactly the records that pass both dimensions,
\* and the record set it was given is unchanged.
C7_FilterExact ==
    pc = "metrics" =>
        /\ filtered_df.rows =
               SelectSeq(df.rows, LAMBDA r :
                   /\ PassesDimension(r.nama_kecamatan, selected_kecamatan)
                   /\ PassesDimension(r.nama_puskesmas, selected_puskesmas))
        /\ df = csv_file

\* A region selected, no facility selected: one of two records is kept.
C7_Witness ==
    /\ pc = "metrics"
    /\ selected_kecamatan = {KEC_A}
    /\ selected_puskesmas = {}
    /\ Len(df.rows) = 2
    /\ Len(filtered_df.rows) = 1

MalformedInput == csv_file \in MalformedFrames \/ geojson_file = NoFeatureList

\* C8: on a malformed primary input the run stops before any aggregation,
\* metric, table or join output is produced.
C8_MalformedInputHalts ==
    MalformedInput => (outputs = <<>> /\ pc # "done")

\* C9: the statistics joined into the map features are the aggregation of
\* the filtered record set, the one the statistics table is computed from.
C9_MapUsesFilteredStats ==
    pc \in AfterMap =>
        /\ map_fig.data = aggregate_by_kecamatan(filtered_df)
        /\ \A i \in DOMAIN map_fig.geojson.features :
               CarriesStats(map_fig.geojson.features[i],
                            aggregate_by_kecamatan(filtered_df))

\* C10: no statistics row has a zero total, and the totals of the rows add
\* up to the number of input records.
C10_NoEmptyPartition ==
    pc = "sidebar" =>
        /\ \A i \in DOMAIN stats_df : stats_df[i].total >= 1
        /\ SumColumn(stats_df, "total") = Len(df.rows)

=============================================================================
